---------------------------- MODULE Spec2Model ----------------------------
(***************************************************************************)
(* A model of precinct-mapper: the fetch pipeline of                       *)
(* src/src/precinct_mapper/data/fetcher.py (StateDataFetcher.fetch and the *)
(* helpers of _DataFetcherHelper) and the resolver of                      *)
(* src/src/precinct_mapper/data/parser.py (StateParser).                   *)
(*                                                                         *)
(* Seven specifications share the variables:                               *)
(*   SpecFetch  one run of StateDataFetcher.fetch against remote sources   *)
(*              that answer each request in any way a server can;          *)
(*   SpecRerun  a run of fetch that can be cut off at any position, the    *)
(*              write of an artifact in its two steps, and the run after;  *)
(*   SpecParse  one run of StateParser.parse over layers drawn from a      *)
(*              small grid;                                                *)
(*   SpecHoles  StateParser._process_holes applied to a drawn shape, and   *)
(*              once more to what it returned, and the test point of       *)
(*              _get_bounding_region for what it returned;                 *)
(*   SpecBuild  _BoundaryRequestBuilder.__init__ on drawn arguments;       *)
(*   SpecFrame  _DataFetcherHelper._process_frame on a drawn table;        *)
(*   SpecCode   StateDataFetcher.__init__, fetch and StateParser.__init__  *)
(*              for one state code.                                        *)
(* Each specification leaves the variables of the others at their rest    *)
(* values.                                                                 *)
(***************************************************************************)
EXTENDS Integers, Sequences, FiniteSets, TLC

(***************************************************************************)
(* Bounds of the model.                                                    *)
(***************************************************************************)
\* number of request builders of a fetcher: the last one is the layer of
\* additional_layers, the others are full_state_layer_requests
NumLayers == 3
\* most requests one feature-service fetch issues before the server runs dry
MaxPages == 2
\* most records a server returns in one page
MaxPageSize == 1
\* number of rows of the precinct artifact
NumPrecincts == 2
\* number of cells the geometries of a parsed state are made of
NumCells == 2
\* number of cells the shapes handed to _process_holes alone are made of
NumHoleCells == 3
\* most parts of a MultiPolygon handed to _process_holes
MaxParts == 3

\* longest state code handed to a constructor, in characters
MaxCodeLen == 3

(***************************************************************************)
(*                              FETCH PIPELINE                             *)
(***************************************************************************)
VARIABLES
    src_format,         \* layer -> format of its _BoundaryRequestBuilder
    overwrite_existing, \* the argument of StateDataFetcher.fetch
    files0,             \* layer -> content of its artifact before the run
    files,              \* layer -> content of its artifact now
    dirs,               \* scoped layers whose nested directory was made
    pc,                 \* position of fetch: "run", "paging", "done", "aborted";
                        \*   in SpecRerun also "fetched", "opened", "cut"
    idx,                \* index of the layer the two loops of fetch are at
    visited,            \* layers handed to a _fetch_from_* helper, in order
    requested,          \* layers for which an HTTP request was sent
    printed,            \* layers whose failure fetch caught and printed
    escaped,            \* exception class that left fetch, or "none"
    outcome,            \* what the exchanges of the latest layer came to
    result_offset,      \* local of _get_boundaries_from_geojson
    table_parts,        \* local of _get_boundaries_from_geojson
    done_fetching,      \* local of _get_boundaries_from_geojson
    sent,               \* resultOffset of every request of this layer fetch
    flags,              \* transfer-limit signal of every page received
    returned,           \* what fetch returned to its caller, Unset before
    offset_param,       \* layer -> "resultOffset" is a key of the params
                        \*   dict of the layer's builder.req
    run                 \* 1 in a run of fetch, 2 in the run after one that
                        \*   was cut off, 0 outside the fetch pipeline

(***************************************************************************)
(* State of StateParser.parse and of _process_holes, declared here for the *)
(* frame conditions; their operations follow the fetch pipeline.           *)
(***************************************************************************)
VARIABLES
    state_files,        \* state/<btype>.geojson -> its regions, in file order
    scoped_files,       \* <<scope, region, btype>> -> its regions
    datatable,          \* column -> precinct -> Region or None
    ppc,                \* position of parse: "start", "state", "scoped",
                        \*   "returned", "raised", or "off" outside SpecParse
    done_state,         \* state-level files the first loop has resolved
    done_scoped,        \* scoped files the second loop has resolved
    tested,             \* <<precinct, <<scope, region, btype>>>> pairs handed
                        \*   to the resolver (<<"state", "", btype>> for state/)
    shape,              \* argument of _process_holes
    sanitized,          \* what _process_holes returned, kind "none" before
    resanitized,        \* what _process_holes returned for sanitized
    hpc,                \* "call", "returned", "again", "pointed", or "off"
                        \*   outside SpecHoles
    test_point          \* what lines 131-141 of _get_bounding_region chose
                        \*   for sanitized, kind "none" before

(***************************************************************************)
(* State of _BoundaryRequestBuilder.__init__ and of _process_frame, each   *)
(* taken on its own.                                                       *)
(***************************************************************************)
VARIABLES
    source_file,        \* the module the builder class is taken from
    args,               \* arguments of _BoundaryRequestBuilder.__init__
    builder,            \* the object constructed, or the error raised
    bpc,                \* "call", "built", "rejected", or "off"
    frame,              \* argument frame of _process_frame
    out_fields,         \* argument out_fields of _process_frame
    lower,              \* argument lower of _process_frame
    project_to_84,      \* argument project_to_84 of _process_frame
    new_frame,          \* what _process_frame returned or raised
    fpc                 \* "call", "returned", "raised", or "off"

(***************************************************************************)
(* State of the two constructors that name the state directory,            *)
(* StateDataFetcher.__init__ and StateParser.__init__, one after the other *)
(* for one state code.                                                     *)
(***************************************************************************)
VARIABLES
    code,               \* argument code of both constructors, its characters
    case_sensitive,     \* the file system tells names apart by letter case
    state_dirs,         \* directories under datasets/
    precinct_files,     \* directories under datasets/ that hold
                        \*   state/precinct.geojson
    fetcher,            \* the StateDataFetcher constructed, or the error
    wrote_precinct,     \* fetch wrote the precinct layer
    parser,             \* the StateParser constructed, or the error
    cpc                 \* "start", "constructed", "rejected", "fetched",
                        \*   "parser", or "off"

codeVars == <<code, case_sensitive, state_dirs, precinct_files, fetcher,
              wrote_precinct, parser, cpc>>

buildVars == <<source_file, args, builder, bpc>>

frameVars == <<frame, out_fields, lower, project_to_84, new_frame, fpc>>

parseVars == <<state_files, scoped_files, datatable, ppc, done_state,
               done_scoped, tested>>

holesVars == <<shape, sanitized, resanitized, hpc, test_point>>

fetchVars == <<src_format, overwrite_existing, files0, files, dirs, pc, idx,
               visited, requested, printed, escaped, outcome, result_offset,
               table_parts, done_fetching, sent, flags, returned,
               offset_param, run>>

Formats == {"geojson", "shapefile", "gdb"}

\* full_state_layer_requests come first, additional_layers after them:
\* the declaration order the two loops of fetch walk.
Layers == 1..NumLayers
IsScoped(l) == l = NumLayers

\* Content of an artifact: no file, the file left by an earlier run, the
\* file this run wrote, or the empty file open(path, "w") leaves before the
\* write.
Contents == {"none", "old", "new", "truncated"}
Exists(content) == content # "none"

\* Python's None, and the value of a name nothing was bound to yet.
None == [none |-> TRUE]
Unset == [unset |-> TRUE]

\* What one HTTP exchange can come to.
\*   conn, timeout  session.send raises ConnectionError, Timeout
\*   http           raise_for_status raises HTTPError
\*   malformed      the body is not JSON, not a zip, or a zip with no entry
\*   errfield       a JSON payload with a truthy "error" field
\*   ok             a usable payload
Transport == {"conn", "timeout", "http"}

\* The exception class a failed exchange raises inside the helper.
RaisedByErrorAsValueError(o, fmt) ==
    CASE o = "conn" -> "ConnectionError"
      [] o = "timeout" -> "Timeout"
      [] o = "http" -> "HTTPError"
      [] o = "errfield" -> "ValueError"
      [] o = "malformed" /\ fmt = "geojson" -> "JSONDecodeError"
      [] o = "malformed" /\ fmt # "geojson" -> "BadZipFile"
      [] o = "emptyzip" -> "StopIteration"
      [] o = "nofield" -> "KeyError"
      [] OTHER -> "none"

RaisedByNothing(o, fmt) == "none"

RaisedBy(o, fmt) ==
    CASE o = "conn" -> "ConnectionError"
      [] o = "timeout" -> "Timeout"
      [] o = "http" -> "HTTPError"
      [] o = "errfield" -> "RuntimeError"
      [] o = "malformed" /\ fmt = "geojson" -> "JSONDecodeError"
      [] o = "malformed" /\ fmt # "geojson" -> "BadZipFile"
      [] o = "emptyzip" -> "StopIteration"
      [] o = "nofield" -> "KeyError"
      [] OTHER -> "none"

\* The except clauses that close each _get_boundaries_from_* helper:
\* ConnectionError, Timeout and every other RequestException leave the
\* helper as RuntimeError; anything else leaves it as it is.
ConvertNoTimeout(exc) ==
    IF exc \in {"ConnectionError", "HTTPError"} THEN "RuntimeError" ELSE exc

Convert(exc) ==
    IF exc \in {"ConnectionError", "Timeout", "HTTPError"}
    THEN "RuntimeError" ELSE exc

\* The except clause of fetch around each layer.
FetchCatches(exc) == exc = "RuntimeError"

\* The transfer-limit signal of a page:
\*   noprops     no "properties" block
\*   emptyprops  an empty "properties" block
\*   absent      a block without exceededTransferLimit (or with null)
\*   false/true  a block with the flag
FlagKinds == {"noprops", "emptyprops", "absent", "false", "true"}

\* done_fetching after a page with this signal.
DoneAfterOnlyFalse(flag) == flag = "false"

DoneAfter(flag) ==
    IF flag \in {"noprops", "emptyprops"}
    THEN TRUE                           \* props is falsy
    ELSE flag \in {"absent", "false"}   \* exceeded is None or == False

\* The records of the k-th page received, n of them.
Page(k, n) == [i \in 1..n |-> <<k, i>>]

RECURSIVE Concat(_)
\* pd.concat(table_parts, ignore_index=True)
Concat(parts) ==
    IF parts = <<>> THEN <<>> ELSE Head(parts) \o Concat(Tail(parts))

RECURSIVE SumLen(_)
SumLen(parts) ==
    IF parts = <<>> THEN 0 ELSE Len(Head(parts)) + SumLen(Tail(parts))

\* line 197: the table _get_boundaries_from_geojson hands to _process_frame
FullTable == Concat(table_parts)

\* line 194: result_offset += num_items
NextOffsetStuck(offset, num_items) == offset

NextOffset(offset, num_items) == offset + num_items

Locals0 ==
    /\ result_offset' = 0
    /\ table_parts' = <<>>
    /\ done_fetching' = FALSE
    /\ sent' = <<>>
    /\ flags' = <<>>

\* The for loops of fetch move on to the next request builder; after the
\* last one fetch falls off its end and returns None.
NextLayer ==
    /\ idx' = idx + 1
    /\ pc' = IF idx = NumLayers THEN "done" ELSE "run"
    /\ returned' = IF idx = NumLayers THEN None ELSE returned

\* An exception leaves a _fetch_from_* helper: the except clause of fetch
\* prints it and the loop goes on, or it leaves fetch.
LayerFails(exc) ==
    IF FetchCatches(exc)
    THEN /\ printed' = Append(printed, idx)
         /\ NextLayer
         /\ UNCHANGED escaped
    ELSE /\ escaped' = exc
         /\ pc' = "aborted"
         /\ UNCHANGED <<printed, idx, returned>>

\* _nested_path(..., make_if_absent=True) ahead of a region's layers.
NestedPath(l) == IF IsScoped(l) THEN dirs \cup {l} ELSE dirs

\* The if of every _fetch_from_* helper.
AlwaysWrite(l) == TRUE

MayWrite(l) == overwrite_existing \/ ~Exists(files[l])

FetchInit ==
    /\ src_format \in [Layers -> Formats]
    /\ overwrite_existing \in BOOLEAN
    /\ files0 \in [Layers -> {"none", "old"}]
    /\ files = files0
    /\ dirs = {l \in Layers : IsScoped(l) /\ Exists(files0[l])}
    /\ pc = "run"
    /\ idx = 1
    /\ visited = <<>>
    /\ requested = {}
    /\ printed = <<>>
    /\ escaped = "none"
    /\ outcome = "none"
    /\ result_offset = 0
    /\ table_parts = <<>>
    /\ done_fetching = FALSE
    /\ sent = <<>>
    /\ flags = <<>>
    /\ returned = Unset
    /\ offset_param = [l \in Layers |-> FALSE]
    /\ run = 1

\* _fetch_from_geojson when the artifact exists and is not to be overwritten.
SkipGeojson ==
    /\ pc = "run" /\ idx \in Layers
    /\ src_format[idx] = "geojson"
    /\ ~MayWrite(idx)
    /\ visited' = Append(visited, idx)
    /\ dirs' = NestedPath(idx)
    /\ outcome' = "none"
    /\ NextLayer
    /\ UNCHANGED <<src_format, overwrite_existing, files0, files, requested,
                   printed, escaped, result_offset, table_parts,
                   done_fetching, sent, flags, offset_param, run>>
    /\ UNCHANGED <<parseVars, holesVars, buildVars, frameVars, codeVars>>

\* _fetch_from_geojson enters _get_boundaries_from_geojson (lines 166-170).
BeginGeojson ==
    /\ pc = "run" /\ idx \in Layers
    /\ src_format[idx] = "geojson"
    /\ MayWrite(idx)
    /\ visited' = Append(visited, idx)
    /\ dirs' = NestedPath(idx)
    /\ pc' = "paging"
    /\ outcome' = "none"
    /\ Locals0
    /\ UNCHANGED <<src_format, overwrite_existing, files0, files, requested,
                   printed, escaped, idx, returned, offset_param, run>>
    /\ UNCHANGED <<parseVars, holesVars, buildVars, frameVars, codeVars>>

\* One turn of the while loop of _get_boundaries_from_geojson: a request
\* with the current resultOffset and what the server answers.  The server
\* holds finitely many records: the MaxPages-th page is not truncated.
GeojsonPage ==
    /\ pc = "paging" /\ ~done_fetching
    /\ Len(sent) < MaxPages
    /\ offset_param' = [offset_param EXCEPT ![idx] = TRUE]     \* line 172
    /\ requested' = requested \cup {idx}
    /\ \E o \in Transport \cup {"malformed", "errfield", "ok"} :
         /\ outcome' = o
         /\ IF o = "ok"
            THEN \E n \in 0..MaxPageSize, f \in FlagKinds :
                   /\ Len(sent) = MaxPages - 1 => f # "true"
                   /\ sent' = Append(sent, result_offset)
                   /\ done_fetching' = DoneAfter(f)
                   /\ flags' = Append(flags, f)
                   /\ table_parts' =
                        Append(table_parts, Page(Len(table_parts) + 1, n))
                   /\ result_offset' = NextOffset(result_offset, n)
                   /\ UNCHANGED <<pc, idx, printed, escaped, returned>>
            ELSE /\ LayerFails(Convert(RaisedBy(o, "geojson")))
                 /\ Locals0
    /\ UNCHANGED <<src_format, overwrite_existing, files0, files, dirs,
                   visited, run>>
    /\ UNCHANGED <<parseVars, holesVars, buildVars, frameVars, codeVars>>

\* The loop has ended: _process_frame on the full table, then the write of
\* _fetch_from_geojson (lines 197-200 and 47-48).
GeojsonReturn ==
    /\ pc = "paging" /\ done_fetching
    /\ \E o \in {"ok", "nofield"} :
         /\ outcome' = o
         /\ IF o = "ok"
            THEN /\ files' = [files EXCEPT ![idx] = "new"]
                 /\ NextLayer
                 /\ UNCHANGED <<printed, escaped>>
            ELSE /\ LayerFails(Convert(RaisedBy(o, "geojson")))
                 /\ UNCHANGED files
    /\ Locals0
    /\ UNCHANGED <<src_format, overwrite_existing, files0, dirs, visited,
                   requested, offset_param, run>>
    /\ UNCHANGED <<parseVars, holesVars, buildVars, frameVars, codeVars>>

\* _fetch_from_shapefile and _fetch_from_gdb: the archive is requested and
\* read first, the artifact is looked at after.
FetchFromArchive(format) ==
    /\ pc = "run" /\ idx \in Layers
    /\ src_format[idx] = format
    /\ visited' = Append(visited, idx)
    /\ dirs' = NestedPath(idx)
    /\ requested' = requested \cup {idx}
    /\ \E o \in Transport \cup {"malformed", "emptyzip", "nofield", "ok"} :
         /\ outcome' = o
         /\ IF o = "ok"
            THEN /\ files' = IF MayWrite(idx)
                             THEN [files EXCEPT ![idx] = "new"]
                             ELSE files
                 /\ NextLayer
                 /\ UNCHANGED <<printed, escaped>>
            ELSE /\ LayerFails(Convert(RaisedBy(o, format)))
                 /\ UNCHANGED files
    /\ UNCHANGED <<src_format, overwrite_existing, files0, result_offset,
                   table_parts, done_fetching, sent, flags, offset_param,
                   run>>
    /\ UNCHANGED <<parseVars, holesVars, buildVars, frameVars, codeVars>>

FetchFromShapefile == FetchFromArchive("shapefile")

FetchFromGdb == FetchFromArchive("gdb")

FetchNext ==
    \/ SkipGeojson
    \/ BeginGeojson
    \/ GeojsonPage
    \/ GeojsonReturn
    \/ FetchFromShapefile
    \/ FetchFromGdb

ParseOff ==
    /\ state_files = <<>>
    /\ scoped_files = <<>>
    /\ datatable = <<>>
    /\ ppc = "off"
    /\ done_state = {}
    /\ done_scoped = {}
    /\ tested = {}

HolesOff ==
    /\ shape = [kind |-> "none"]
    /\ sanitized = [kind |-> "none"]
    /\ resanitized = [kind |-> "none"]
    /\ hpc = "off"
    /\ test_point = [kind |-> "none"]

BuildOff ==
    /\ source_file = "none"
    /\ args = Unset
    /\ builder = Unset
    /\ bpc = "off"

FrameOff ==
    /\ frame = Unset
    /\ out_fields = <<>>
    /\ lower = FALSE
    /\ project_to_84 = FALSE
    /\ new_frame = Unset
    /\ fpc = "off"

CodeOff ==
    /\ code = <<>>
    /\ case_sensitive = TRUE
    /\ state_dirs = {}
    /\ precinct_files = {}
    /\ fetcher = Unset
    /\ wrote_precinct = FALSE
    /\ parser = Unset
    /\ cpc = "off"

vars == <<fetchVars, parseVars, holesVars, buildVars, frameVars, codeVars>>

InitFetch == FetchInit /\ ParseOff /\ HolesOff /\ BuildOff /\ FrameOff /\ CodeOff

SpecFetch == InitFetch /\ [][FetchNext]_vars

(***************************************************************************)
(*                  A RUN THAT IS CUT OFF, AND THE RUN AFTER IT            *)
(* The same pipeline with the write of an artifact in its two steps, the   *)
(* open that truncates and the write that fills, and each                  *)
(* _get_boundaries_from_* call as one step.  The first run can be cut off  *)
(* at any position; fetch(overwrite_existing=False) then runs again, every *)
(* source answering well.                                                  *)
(***************************************************************************)

\* What a source can answer to the layer fetch of a format.
Outcomes(fmt) ==
    IF fmt = "geojson"
    THEN Transport \cup {"malformed", "errfield", "nofield", "ok"}
    ELSE Transport \cup {"malformed", "emptyzip", "nofield", "ok"}

\* Lines 46, 68 and 80: data = _get_boundaries_from_*(...), retrieval and
\* _process_frame; for geojson behind the if of line 45.
GetBoundaries ==
    /\ pc = "run" /\ idx \in Layers
    /\ src_format[idx] = "geojson" => MayWrite(idx)
    /\ visited' = Append(visited, idx)
    /\ dirs' = NestedPath(idx)
    /\ requested' = requested \cup {idx}
    /\ offset_param' = IF src_format[idx] = "geojson"
                       THEN [offset_param EXCEPT ![idx] = TRUE]
                       ELSE offset_param
    /\ \E o \in IF run = 2 THEN {"ok"} ELSE Outcomes(src_format[idx]) :
         /\ outcome' = o
         /\ LET exc == Convert(RaisedBy(o, src_format[idx]))
            IN  IF exc = "none"
                THEN /\ pc' = "fetched"
                     /\ UNCHANGED <<idx, printed, escaped, returned>>
                ELSE LayerFails(exc)
    /\ UNCHANGED <<src_format, overwrite_existing, files0, files,
                   result_offset, table_parts, done_fetching, sent, flags,
                   run>>
    /\ UNCHANGED <<parseVars, holesVars, buildVars, frameVars, codeVars>>

\* Lines 47, 70-71 and 82-83: open(output_path, "w") leaves an empty file;
\* the archive helpers look at the artifact only here.
OpenArtifact ==
    /\ pc = "fetched"
    /\ IF MayWrite(idx)
       THEN /\ files' = [files EXCEPT ![idx] = "truncated"]
            /\ pc' = "opened"
            /\ UNCHANGED <<idx, returned>>
       ELSE /\ NextLayer
            /\ UNCHANGED files
    /\ UNCHANGED <<src_format, overwrite_existing, files0, dirs, visited,
                   requested, printed, escaped, outcome, result_offset,
                   table_parts, done_fetching, sent, flags, offset_param,
                   run>>
    /\ UNCHANGED <<parseVars, holesVars, buildVars, frameVars, codeVars>>

\* Lines 48, 72 and 84: file.write(data.to_json()) and the end of the with
\* block.
WriteArtifact ==
    /\ pc = "opened"
    /\ files' = [files EXCEPT ![idx] = "new"]
    /\ NextLayer
    /\ UNCHANGED <<src_format, overwrite_existing, files0, dirs, visited,
                   requested, printed, escaped, outcome, result_offset,
                   table_parts, done_fetching, sent, flags, offset_param,
                   run>>
    /\ UNCHANGED <<parseVars, holesVars, buildVars, frameVars, codeVars>>

\* The process of the first run is stopped where it stands.
Interrupt ==
    /\ run = 1
    /\ pc \in {"run", "fetched", "opened"}
    /\ pc' = "cut"
    /\ UNCHANGED <<src_format, overwrite_existing, files0, files, dirs, idx,
                   visited, requested, printed, escaped, outcome,
                   result_offset, table_parts, done_fetching, sent, flags,
                   returned, offset_param, run>>
    /\ UNCHANGED <<parseVars, holesVars, buildVars, frameVars, codeVars>>

\* fetch(overwrite_existing=False) on the directory tree the run that was
\* cut off left.
RunAgain ==
    /\ pc = "cut"
    /\ run' = 2
    /\ overwrite_existing' = FALSE
    /\ pc' = "run"
    /\ idx' = 1
    /\ visited' = <<>>
    /\ requested' = {}
    /\ printed' = <<>>
    /\ outcome' = "none"
    /\ UNCHANGED <<src_format, files0, files, dirs, escaped, result_offset,
                   table_parts, done_fetching, sent, flags, returned,
                   offset_param>>
    /\ UNCHANGED <<parseVars, holesVars, buildVars, frameVars, codeVars>>

RerunNext ==
    \/ SkipGeojson
    \/ GetBoundaries
    \/ OpenArtifact
    \/ WriteArtifact
    \/ Interrupt
    \/ RunAgain

InitRerun == FetchInit /\ ParseOff /\ HolesOff /\ BuildOff /\ FrameOff /\ CodeOff

SpecRerun == InitRerun /\ [][RerunNext]_vars

\* C24: when the run after a run that was cut off has ended, every layer's
\* artifact holds complete data, written by one of the two runs or left
\* complete by a run before them; none is missing, none is the empty file
\* of an open that was never followed by its write.
C24_RerunCompletesEveryArtifact ==
    (run = 2 /\ pc = "done") =>
        \A l \in Layers : files[l] \in {"old", "new"}

\* C25: a step in which a layer fetch fails at retrieval or normalization
\* leaves every artifact as it is, whatever overwrite_existing; an artifact
\* changes only in the open and the write that follow a layer fetch whose
\* data was retrieved and normalized, and only that layer's artifact.
C25_FailedFetchKeepsArtifact ==
    [][/\ outcome' \notin {"ok", "none"} => files' = files
       /\ files' # files =>
             /\ outcome = "ok"
             /\ pc \in {"fetched", "opened"}
             /\ \A l \in Layers \ {idx} : files'[l] = files[l]]_vars

\* With overwrite_existing set, the fetch of layer 1, which had an
\* artifact, failed and was reported; the artifact is the one it had.
C25_Witness ==
    /\ run = 1
    /\ overwrite_existing
    /\ files0[1] = "old"
    /\ printed = <<1>>
    /\ idx = 2
    /\ outcome \in Transport
    /\ files[1] = "old"

(***************************************************************************)
(*                      PROPERTIES OF THE FETCH PIPELINE                   *)
(***************************************************************************)

\* C1: with overwrite_existing = false, no HTTP request is issued for a
\* layer whose destination artifact already exists, whatever its format.
C1_NoRequestWhenArtifactExists ==
    \A l \in Layers :
        (~overwrite_existing /\ Exists(files0[l])) => l \notin requested

\* C2: a connection error, a timeout or an HTTP error status on one layer
\* never leaves fetch: the failure is caught and printed, the loops stand
\* at the next request builder, layers are handed to their helper in
\* declaration order and none twice, and a run that ends has handed over
\* every one of them.
C2_TransportFailureCaught ==
    /\ escaped \notin {"ConnectionError", "Timeout", "HTTPError",
                        "RuntimeError"}
    /\ visited = [i \in 1..Len(visited) |-> i]
    /\ pc = "run" => idx \in Layers /\ Len(visited) = idx - 1
    /\ pc = "done" => Len(visited) = NumLayers
    /\ outcome \in Transport =>
         /\ pc \in {"run", "done"}
         /\ Len(visited) = idx - 1
         /\ printed # <<>> /\ printed[Len(printed)] = idx - 1

\* Every layer failed, the last one on a transport failure, and the run
\* went through all of them.
C2_Witness ==
    /\ pc = "done"
    /\ outcome \in Transport
    /\ printed = [i \in 1..NumLayers |-> i]
    /\ visited = printed

C4_ContinueIffFlagTrue ==
    (pc = "paging" /\ flags # <<>>) =>
        LET N == Len(flags)
            last == table_parts[N]
        IN  /\ (ENABLED GeojsonPage) <=> flags[N] = "true"
            /\ (ENABLED GeojsonReturn) <=> flags[N] # "true"
            /\ SubSeq(FullTable, Len(FullTable) - Len(last) + 1,
                      Len(FullTable)) = last

\* A second page came without the flag, after a first page that had it,
\* and brought a record.
C4_Witness ==
    /\ pc = "paging"
    /\ Len(flags) > 1
    /\ flags[Len(flags)] = "absent"
    /\ Len(table_parts[Len(flags)]) > 0
    /\ done_fetching

\* C13: with overwrite_existing = false every artifact that existed
\* before the run has the content it had, at every point of the run, for
\* every format and every answer of the remote source.
C13_ExistingArtifactUntouched ==
    \A l \in Layers :
        (~overwrite_existing /\ Exists(files0[l])) => files[l] = files0[l]

\* A run without overwrite has ended: an archive whose artifact existed
\* was requested and read and the artifact is the old one, a layer without
\* artifact was written, and a layer failed.
C13_Witness ==
    /\ pc = "done"
    /\ ~overwrite_existing
    /\ \E l \in requested :
          /\ files0[l] = "old" /\ files[l] = "old"
          /\ \A i \in 1..Len(printed) : printed[i] # l
    /\ \E l \in Layers : files[l] = "new"
    /\ printed # <<>>

\* The layers a run wrote an artifact for.
Written == {l \in Layers : files[l] = "new"}

\* C14: when a fetch run ends it has returned to its caller the number of
\* artifacts written and the list of the layers that failed, which are
\* the layers whose fetch or normalization failed, the one that ended the
\* run included.
C14_ReportsWrittenAndFailed ==
    pc \in {"done", "aborted"} =>
        returned = [written |-> Cardinality(Written),
                    failed |-> IF pc = "aborted" THEN Append(printed, idx)
                               ELSE printed]

\* C15: a layer whose source table lacks a field of the field map fails
\* alone: the failure is caught and printed like a network failure, no
\* artifact is written for the layer, and the run goes on.
C15_SchemaFailureIsolated ==
    outcome = "nofield" =>
        /\ pc \in {"run", "done"}
        /\ escaped = "none"
        /\ printed # <<>> /\ printed[Len(printed)] = idx - 1
        /\ files[idx - 1] = files0[idx - 1]

\* C16: for every format, a connection refusal, a timeout, an HTTP error
\* status and a malformed payload (no JSON, no zip, a zip without entry)
\* are caught by fetch: the layer is printed and the run goes on.
C16_TransportAndPayloadCaught ==
    /\ escaped \notin {"ConnectionError", "Timeout", "HTTPError",
                        "JSONDecodeError", "BadZipFile", "StopIteration"}
    /\ outcome \in Transport \cup {"malformed", "emptyzip"} =>
          /\ pc \in {"run", "done"}
          /\ printed # <<>> /\ printed[Len(printed)] = idx - 1

\* C17: a page with an "error" field ends the fetch of its layer there:
\* the failure is caught, the loops move on to the next layer and never
\* come back to this one, the pages received are dropped, and no artifact
\* is written or changed.
C17_ErrorFieldAbortsLayer ==
    [][ (pc = "paging" /\ outcome' = "errfield") =>
          /\ pc' \in {"run", "done"}
          /\ idx' = idx + 1
          /\ \A i \in 1..Len(visited) : visited[i] < idx'
          /\ printed' = Append(printed, idx)
          /\ escaped' = "none"
          /\ table_parts' = <<>> /\ sent' = <<>>
          /\ files' = files
          /\ files[idx] = files0[idx]
      ]_vars

\* The error came after a first page was received, for a layer whose
\* artifact is to be overwritten; the artifact is the old one.
C17_Witness ==
    /\ outcome = "errfield"
    /\ pc = "run"
    /\ overwrite_existing
    /\ idx - 1 \in requested
    /\ files0[idx - 1] = "old" /\ files[idx - 1] = "old"
    /\ printed # <<>> /\ printed[Len(printed)] = idx - 1

\* C23: fetching leaves every request descriptor as it was constructed;
\* the query parameters of its request have the keys __init__ gave them and
\* no resultOffset, and its format is the one it was declared with.
C23_DescriptorNotModified ==
    pc # "off" =>
        /\ \A l \in Layers : ~offset_param[l]
        /\ src_format \in [Layers -> Formats]

\* C27: within one layer fetch from a feature service every request after
\* the first carries a resultOffset strictly greater than the one before
\* it, so no page is requested twice.
C27_OffsetStrictlyIncreases ==
    \A k \in 2..Len(sent) : sent[k] > sent[k - 1]

(***************************************************************************)
(*                                GEOMETRY                                 *)
(* Geometries lie on a line of NumCells unit cells.  A Polygon is the set  *)
(* of cells it covers (a gap in the set is a hole or a concavity) and the  *)
(* orientation of its exterior ring; a MultiPolygon is a sequence of       *)
(* Polygons.  A point is a position in half cells: 2c + 1 is the middle of *)
(* cell c, 2c the border between cells c - 1 and c.                        *)
(***************************************************************************)
Cells == 1..NumCells

Polygon(cells, ccw) == [kind |-> "Polygon", cells |-> cells, ccw |-> ccw]

MultiPolygon(parts) == [kind |-> "MultiPolygon", parts |-> parts]

\* shapely: h.within(e), no point of h outside e and h not empty
Within(h, e) == h.cells # {} /\ h.cells \subseteq e.cells

\* shapely: e.difference(h); the ring GEOS returns is wound clockwise
DifferenceReversed(e, h) == [cells |-> e.cells \ h.cells, kind |-> e.kind, ccw |-> TRUE]

Difference(e, h) == [e EXCEPT !.cells = e.cells \ h.cells]

\* The cells a geometry covers.
CellsOf(g) ==
    IF g.kind = "Polygon" THEN g.cells
    ELSE UNION {g.parts[i].cells : i \in 1..Len(g.parts)}

\* shapely: g.contains(point), the point lies in the interior of g
Contains(g, point) ==
    IF point % 2 = 1
    THEN (point - 1) \div 2 \in CellsOf(g)
    ELSE {point \div 2 - 1, point \div 2} \subseteq CellsOf(g)

RECURSIVE SubtractHoles(_, _)
\* lines 43-45: the inner loop of _process_holes over the holes, for one
\* shell e; each hole is tested against e as the holes before it left it.
SubtractHoles(e, holes) ==
    IF holes = <<>> THEN e
    ELSE SubtractHoles(IF Within(Head(holes), e)
                       THEN Difference(e, Head(holes)) ELSE e,
                       Tail(holes))

\* StateParser._process_holes
ProcessHoles(g) ==
    IF g.kind = "Polygon" THEN g
    ELSE LET holes == SelectSeq(g.parts, LAMBDA q : q.ccw)
             exts == SelectSeq(g.parts, LAMBDA q : ~q.ccw)
         IN  MultiPolygon([i \in 1..Len(exts) |->
                              SubtractHoles(exts[i], holes)])

RECURSIVE SumOf(_)
SumOf(S) == IF S = {} THEN 0
            ELSE LET c == CHOOSE c \in S : TRUE IN c + SumOf(S \ {c})

\* shapely: polygon.area
Area(polygon) == Cardinality(polygon.cells)

\* line 134: max(shape.geoms, key=area), the first part of largest area
LargestPart(g) ==
    g.parts[CHOOSE i \in 1..Len(g.parts) :
               /\ \A j \in 1..Len(g.parts) : Area(g.parts[j]) <= Area(g.parts[i])
               /\ \A j \in 1..(i - 1) : Area(g.parts[j]) < Area(g.parts[i])]

\* shapely: polygon.centroid, the mean of the middles of its cells; a mean
\* that is no border and no middle lies inside a cell and is moved to its
\* middle, which no containment test tells from it.
Centroid(polygon) ==
    LET n == Cardinality(polygon.cells)
        total == 2 * SumOf(polygon.cells) + n
    IN  IF total % n = 0 THEN total \div n
        ELSE 2 * ((total \div n) \div 2) + 1

\* shapely: polygon.representative_point(), some point inside the polygon
RepresentativePoint(polygon) ==
    2 * (CHOOSE c \in polygon.cells : \A d \in polygon.cells : c <= d) + 1

\* lines 133-141 of _get_bounding_region: the point tested for a shape
TestPointCentroid(g) ==
    Centroid(IF g.kind = "MultiPolygon" THEN LargestPart(g) ELSE g)

TestPoint(g) ==
    LET polygon == IF g.kind = "MultiPolygon" THEN LargestPart(g) ELSE g
        point == Centroid(polygon)
    IN  IF Contains(polygon, point) THEN point
        ELSE RepresentativePoint(polygon)

(***************************************************************************)
(*                            HIERARCHY RESOLVER                           *)
(***************************************************************************)
Precincts == 1..NumPrecincts

\* The RuntimeError of _validate_boundary_results, where a column entry
\* would be.
Raised == [raised |-> TRUE]

\* StateParser._row_to_region
RowToRegion(btype, row) ==
    [btype |-> btype, name |-> row.name, boundary |-> row.geometry,
     identifier |-> row.id]

\* Lines 62-67 and 88-92: a layer file as parse hands it to the resolver,
\* every geometry through _process_holes, the Region built from the row
\* after that.
RawTable(btype, rows) ==
    [i \in 1..Len(rows) |->
        [geometry |-> rows[i].geometry, region |-> RowToRegion(btype, rows[i])]]

RegionsTable(btype, rows) ==
    [i \in 1..Len(rows) |->
        LET row == [rows[i] EXCEPT !.geometry = ProcessHoles(rows[i].geometry)]
        IN  [geometry |-> row.geometry, region |-> RowToRegion(btype, row)]]

\* StateParser._validate_boundary_results
ValidateFirstMatch(results) ==
    IF Len(results) = 0 THEN None ELSE results[1].region

ValidateLargest(results) ==
    IF Len(results) = 0 THEN None
    ELSE results[CHOOSE i \in 1..Len(results) :
                    \A j \in 1..Len(results) :
                        Cardinality(CellsOf(results[j].geometry))
                            <= Cardinality(CellsOf(results[i].geometry))].region

ValidateBoundaryResults(results) ==
    IF Len(results) = 0 THEN None
    ELSE IF Len(results) > 1 THEN Raised
    ELSE results[1].region

\* StateParser._get_bounding_region_of_point
GetBoundingRegionOfPoint(point, regions_table) ==
    ValidateBoundaryResults(
        SelectSeq(regions_table, LAMBDA r : Contains(r.geometry, point)))

\* StateParser._get_bounding_region for a Polygon or MultiPolygon
GetBoundingRegion(g, regions_table) ==
    GetBoundingRegionOfPoint(TestPoint(g), regions_table)

\* The artifacts parse reads.  Precinct p covers one cell; the regions of
\* the other layers are drawn in ParseInit.
PrecinctRows ==
    [p \in Precincts |->
        [name |-> "precinct", id |-> p,
         geometry |-> Polygon({((p - 1) % NumCells) + 1}, FALSE)]]

\* state/city.geojson: the cities x and y
CityRows(sx, sy) ==
    << [name |-> "x", id |-> 1, geometry |-> Polygon(sx, FALSE)],
       [name |-> "y", id |-> 2, geometry |-> Polygon(sy, FALSE)] >>

\* state/ward.geojson: one ward over the whole line, with the cells of
\* hole cut out by a counter-clockwise part when there are any
WardRows(hole) ==
    << [name |-> "w0", id |-> 1,
        geometry |-> IF hole = {} THEN Polygon(Cells, FALSE)
                     ELSE MultiPolygon(<< Polygon(Cells, FALSE),
                                          Polygon(hole, TRUE) >>)] >>

\* city/x/ward.geojson: the wards w1 and w2 of city x
ScopedWardRows(s1, s2) ==
    << [name |-> "w1", id |-> 1, geometry |-> Polygon(s1, FALSE)],
       [name |-> "w2", id |-> 2, geometry |-> Polygon(s2, FALSE)] >>

ScopedWardKey == <<"city", "x", "ward">>

StateLayerFiles == DOMAIN state_files \ {"precinct"}

ParseInit ==
    /\ state_files \in
         {("precinct" :> PrecinctRows) @@ ("city" :> CityRows(sx, sy)) @@ w :
            sx \in SUBSET Cells, sy \in SUBSET Cells,
            w \in {<<>>} \cup {("ward" :> WardRows(h)) : h \in SUBSET Cells}}
    /\ scoped_files \in
         {(ScopedWardKey :> ScopedWardRows(s1, s2)) :
            s1 \in SUBSET Cells, s2 \in SUBSET Cells}
    /\ datatable = <<>>
    /\ ppc = "start"
    /\ done_state = {}
    /\ done_scoped = {}
    /\ tested = {}

\* Lines 51-57: the precinct artifact becomes the first two columns.
ReadPrecincts ==
    /\ ppc = "start"
    /\ LET rows == [p \in Precincts |->
                     [state_files["precinct"][p] EXCEPT
                        !.geometry = ProcessHoles(@)]]
       IN  datatable' =
             ("geometry" :> [p \in Precincts |-> rows[p].geometry])
             @@ ("precinct" :> [p \in Precincts |->
                                  RowToRegion("precinct", rows[p])])
    /\ ppc' = "state"
    /\ UNCHANGED <<state_files, scoped_files, done_state, done_scoped, tested>>
    /\ UNCHANGED <<fetchVars, holesVars, buildVars, frameVars, codeVars>>

\* The rows apply hands to the resolver before it raises or ends.
RowsTested(column) ==
    {p \in Precincts : \A q \in 1..(p - 1) : column[q] # Raised}

\* Lines 59-71: one turn of the loop over state/, in directory order.
ResolveStateLayer ==
    /\ ppc = "state"
    /\ \E file \in StateLayerFiles \ done_state :
         LET region_table == RegionsTable(file, state_files[file])
             column == [p \in Precincts |->
                          GetBoundingRegion(datatable["geometry"][p],
                                            region_table)]
         IN  /\ tested' = tested \cup
                    {<<p, <<"state", "", file>>>> : p \in RowsTested(column)}
             /\ IF \E p \in Precincts : column[p] = Raised
                THEN /\ ppc' = "raised"
                     /\ UNCHANGED <<datatable, done_state>>
                ELSE /\ datatable' = (file :> column) @@ datatable
                     /\ done_state' = done_state \cup {file}
                     /\ UNCHANGED ppc
    /\ UNCHANGED <<state_files, scoped_files, done_scoped>>
    /\ UNCHANGED <<fetchVars, holesVars, buildVars, frameVars, codeVars>>

\* The loop over state/ has to end before the loop over the scope
\* directories begins.
NoBarrier == TRUE

StateLevelDone == done_state = StateLayerFiles

\* Lines 72-74: between the two loops.
EndStateLevel ==
    /\ ppc = "state"
    /\ StateLevelDone
    /\ ppc' = "scoped"
    /\ UNCHANGED <<state_files, scoped_files, datatable, done_state,
                   done_scoped, tested>>
    /\ UNCHANGED <<fetchVars, holesVars, buildVars, frameVars, codeVars>>

\* Line 81: the rows whose entry in the scope column is the region of the
\* directory.
InScopeAnyRegion(region, region_name) == region # None

InScope(region, region_name) ==
    IF region = None THEN FALSE ELSE region.name = region_name

\* Line 101: column.fillna(boundaries), the entries that are None take
\* the value boundaries has for their row, if it has one.
FillnaRegionRows(column, boundaries) == boundaries

FillnaOverwrite(column, boundaries) ==
    [p \in Precincts |->
        IF p \in DOMAIN boundaries THEN boundaries[p] ELSE column[p]]

Fillna(column, boundaries) ==
    [p \in Precincts |->
        IF column[p] = None /\ p \in DOMAIN boundaries
        THEN boundaries[p] ELSE column[p]]

\* Lines 75-101: one layer file of one region directory of one scope
\* directory, in directory order.
ResolveScopedLayer ==
    /\ ppc = "scoped"
    /\ \E key \in DOMAIN scoped_files \ done_scoped :
         LET scope == key[1]
             region_name == key[2]
             btype == key[3]
         IN  IF scope \notin DOMAIN datatable
             THEN /\ ppc' = "raised"       \* KeyError at line 81
                  /\ UNCHANGED <<datatable, done_scoped, tested>>
             ELSE
               LET region_rows ==
                     {p \in Precincts :
                        InScope(datatable[scope][p], region_name)}
                   layer_table == RegionsTable(btype, scoped_files[key])
                   found == [p \in Precincts |->
                               IF p \in region_rows
                               THEN GetBoundingRegion(
                                      datatable["geometry"][p], layer_table)
                               ELSE None]
                   upto == {p \in region_rows :
                              \A q \in region_rows :
                                 q < p => found[q] # Raised}
                   boundaries == [p \in region_rows |-> found[p]]
                   column == IF btype \in DOMAIN datatable
                             THEN datatable[btype]
                             ELSE [p \in Precincts |-> None]
               IN  /\ tested' = tested \cup {<<p, key>> : p \in upto}
                   /\ IF \E p \in region_rows : found[p] = Raised
                      THEN /\ ppc' = "raised"
                           /\ UNCHANGED <<datatable, done_scoped>>
                      ELSE /\ datatable' =
                                (btype :> Fillna(column, boundaries))
                                @@ datatable
                           /\ done_scoped' = done_scoped \cup {key}
                           /\ UNCHANGED ppc
    /\ UNCHANGED <<state_files, scoped_files, done_state>>
    /\ UNCHANGED <<fetchVars, holesVars, buildVars, frameVars, codeVars>>

\* Line 104: return datatable.
ParseReturn ==
    /\ ppc = "scoped"
    /\ done_scoped = DOMAIN scoped_files
    /\ ppc' = "returned"
    /\ UNCHANGED <<state_files, scoped_files, datatable, done_state,
                   done_scoped, tested>>
    /\ UNCHANGED <<fetchVars, holesVars, buildVars, frameVars, codeVars>>

ParseNext ==
    \/ ReadPrecincts
    \/ ResolveStateLayer
    \/ EndStateLevel
    \/ ResolveScopedLayer
    \/ ParseReturn

FetchOff ==
    /\ src_format = <<>>
    /\ overwrite_existing = FALSE
    /\ files0 = <<>>
    /\ files = <<>>
    /\ dirs = {}
    /\ pc = "off"
    /\ idx = 0
    /\ visited = <<>>
    /\ requested = {}
    /\ printed = <<>>
    /\ escaped = "none"
    /\ outcome = "none"
    /\ result_offset = 0
    /\ table_parts = <<>>
    /\ done_fetching = FALSE
    /\ sent = <<>>
    /\ flags = <<>>
    /\ returned = Unset
    /\ offset_param = <<>>
    /\ run = 0

InitParse == ParseInit /\ FetchOff /\ HolesOff /\ BuildOff /\ FrameOff /\ CodeOff

SpecParse == InitParse /\ [][ParseNext]_vars

(***************************************************************************)
(*                      _process_holes ON ITS OWN                          *)
(***************************************************************************)
HoleCells == 1..NumHoleCells

\* The parts a MultiPolygon is made of: a ring around some cells, wound
\* clockwise or counter-clockwise.
Parts == {Polygon(cells, ccw) : cells \in (SUBSET HoleCells) \ {{}},
                                ccw \in BOOLEAN}

\* line 26: the argument of _process_holes
HolesInit ==
    /\ \/ shape \in Parts
       \/ \E n \in 1..MaxParts : \E parts \in [1..n -> Parts] :
             shape = MultiPolygon(parts)
    /\ sanitized = [kind |-> "none"]
    /\ resanitized = [kind |-> "none"]
    /\ hpc = "call"
    /\ test_point = [kind |-> "none"]

\* lines 27-28: a Polygon comes back as it is
ReturnPolygon ==
    /\ hpc = "call"
    /\ shape.kind = "Polygon"
    /\ sanitized' = ProcessHoles(shape)
    /\ hpc' = "returned"
    /\ UNCHANGED <<shape, resanitized, test_point, fetchVars, parseVars,
                   buildVars, frameVars, codeVars>>

\* lines 29-47: a MultiPolygon comes back with its holes taken out
ReturnMultiPolygon ==
    /\ hpc = "call"
    /\ shape.kind = "MultiPolygon"
    /\ sanitized' = ProcessHoles(shape)
    /\ hpc' = "returned"
    /\ UNCHANGED <<shape, resanitized, test_point, fetchVars, parseVars,
                   buildVars, frameVars, codeVars>>

\* _process_holes once more, on what it returned
SanitizeAgain ==
    /\ hpc = "returned"
    /\ resanitized' = ProcessHoles(sanitized)
    /\ hpc' = "again"
    /\ UNCHANGED <<shape, sanitized, test_point, fetchVars, parseVars,
                   buildVars, frameVars, codeVars>>

\* shapely: the centroid and the representative point of a polygon that
\* covers nothing, POINT EMPTY, which lies within no geometry
EmptyPoint == [kind |-> "Point", empty |-> TRUE]

PointAt(position) == [kind |-> "Point", empty |-> FALSE, at |-> position]

\* Lines 131-141 of _get_bounding_region for the geometry parse keeps for a
\* precinct, the one _process_holes returned (line 52).  max() of line 134
\* raises ValueError for a MultiPolygon without parts.
ChoosePoint ==
    /\ hpc = "returned"
    /\ test_point' =
          IF sanitized.kind = "MultiPolygon" /\ Len(sanitized.parts) = 0
          THEN [kind |-> "ValueError"]
          ELSE LET polygon == IF sanitized.kind = "MultiPolygon"
                              THEN LargestPart(sanitized) ELSE sanitized
               IN  IF Area(polygon) = 0 THEN EmptyPoint
                   ELSE PointAt(TestPoint(sanitized))
    /\ hpc' = "pointed"
    /\ UNCHANGED <<shape, sanitized, resanitized, fetchVars, parseVars,
                   buildVars, frameVars, codeVars>>

HolesNext ==
    \/ ReturnPolygon
    \/ ReturnMultiPolygon
    \/ SanitizeAgain
    \/ ChoosePoint

InitHoles == HolesInit /\ FetchOff /\ ParseOff /\ BuildOff /\ FrameOff /\ CodeOff

SpecHoles == InitHoles /\ [][HolesNext]_vars

(***************************************************************************)
(*                       PROPERTIES OF _process_holes                      *)
(***************************************************************************)

\* The clockwise parts of a MultiPolygon, in its order.
Shells(g) == SelectSeq(g.parts, LAMBDA q : ~q.ccw)

\* The cells of the counter-clockwise parts of g that lie within shell e.
HoleCellsWithin(g, e) ==
    UNION {g.parts[j].cells : j \in {k \in 1..Len(g.parts) :
                                       g.parts[k].ccw /\ Within(g.parts[k], e)}}

\* C10: for a MultiPolygon, _process_holes returns a MultiPolygon with
\* exactly one part per clockwise part, in input order, each equal to
\* that shell minus every counter-clockwise part that lies within it.
C10_EveryHoleWithinSubtracted ==
    (hpc = "returned" /\ shape.kind = "MultiPolygon") =>
        /\ sanitized.kind = "MultiPolygon"
        /\ Len(sanitized.parts) = Len(Shells(shape))
        /\ \A i \in 1..Len(Shells(shape)) :
              sanitized.parts[i] =
                  Polygon(Shells(shape)[i].cells
                              \ HoleCellsWithin(shape, Shells(shape)[i]),
                          FALSE)

\* C11: _process_holes is idempotent: for every Polygon or MultiPolygon,
\* what it returns for its own result is that result.
C11_Idempotent ==
    hpc = "again" => resanitized = sanitized

\* Sanitized twice: a MultiPolygon that lost cells to a hole the first
\* time.
C11_Witness ==
    /\ hpc = "again"
    /\ shape.kind = "MultiPolygon"
    /\ Len(Shells(shape)) > 1
    /\ \E i \in 1..Len(Shells(shape)) :
          /\ sanitized.parts[i].cells # Shells(shape)[i].cells
          /\ sanitized.parts[i].cells # {}
    /\ resanitized = sanitized

\* No part of the MultiPolygon g lies within another of its parts.
NoPartWithinAnother(g) ==
    \A i, j \in 1..Len(g.parts) :
        i # j => ~Within(g.parts[i], g.parts[j])

\* C12: a Polygon is returned as it is, and a MultiPolygon none of whose
\* parts lies within another part is returned with the same parts,
\* whatever the ring orientation of those parts.
C12_CorrectGeometryUnchanged ==
    hpc = "returned" =>
        /\ shape.kind = "Polygon" => sanitized = shape
        /\ (shape.kind = "MultiPolygon" /\ NoPartWithinAnother(shape)) =>
              /\ sanitized.kind = "MultiPolygon"
              /\ sanitized.parts = shape.parts

\* The parts of largest area of a geometry; a Polygon is its only part.
LargestParts(g) ==
    IF g.kind = "Polygon" THEN {g}
    ELSE {g.parts[i] : i \in {k \in 1..Len(g.parts) :
                \A j \in 1..Len(g.parts) : Area(g.parts[j]) <= Area(g.parts[k])}}

\* C21: the test point chosen for a precinct geometry that covers some
\* area is the centroid of the geometry (of its largest-area part for a
\* MultiPolygon) when the centroid lies within that polygon, otherwise
\* that polygon's representative point, and it lies within the geometry.
C21_TestPointWithinGeometry ==
    (hpc = "pointed" /\ CellsOf(sanitized) # {}) =>
        /\ test_point.kind = "Point"
        /\ ~test_point.empty
        /\ \E polygon \in LargestParts(sanitized) :
              test_point.at = IF Contains(polygon, Centroid(polygon))
                         THEN Centroid(polygon)
                         ELSE RepresentativePoint(polygon)
        /\ Contains(sanitized, test_point.at)

\* The largest part of a MultiPolygon of several parts has its centroid in
\* a gap, and its representative point was chosen.
C21_Witness ==
    /\ hpc = "pointed"
    /\ sanitized.kind = "MultiPolygon"
    /\ Len(sanitized.parts) > 1
    /\ test_point.kind = "Point"
    /\ ~test_point.empty
    /\ ~Contains(LargestPart(sanitized), Centroid(LargestPart(sanitized)))
    /\ test_point.at = RepresentativePoint(LargestPart(sanitized))

(***************************************************************************)
(*                        PROPERTIES OF THE RESOLVER                       *)
(***************************************************************************)

\* The test point of precinct p.
PrecinctPoint(p) ==
    TestPoint(ProcessHoles(state_files["precinct"][p].geometry))

\* The rows of a layer whose sanitized boundary contains the test point
\* of precinct p.
Matches(p, rows) ==
    {i \in 1..Len(rows) :
        Contains(ProcessHoles(rows[i].geometry), PrecinctPoint(p))}

\* The Region of row i of a layer.
RegionOf(btype, rows, i) ==
    [btype |-> btype, name |-> rows[i].name, identifier |-> rows[i].id,
     boundary |-> ProcessHoles(rows[i].geometry)]

\* The region or None the claims expect of precinct p and a layer in which
\* at most one row matches.
Expected(p, btype, rows) ==
    IF Matches(p, rows) = {} THEN None
    ELSE RegionOf(btype, rows, CHOOSE i \in Matches(p, rows) : TRUE)

\* Precinct p is assigned, in the scope column of a scoped layer, the
\* region the layer belongs to.
Assigned(p, key) ==
    /\ key[1] \in DOMAIN datatable
    /\ datatable[key[1]][p] # None
    /\ datatable[key[1]][p].name = key[2]

\* The other scoped layers of the boundary type of key.
OtherScoped(key) ==
    {k \in DOMAIN scoped_files : k # key /\ k[3] = key[3]}

\* The entry precinct p holds for boundary type btype, None without the
\* column.
Held(p, btype) ==
    IF btype \in DOMAIN datatable THEN datatable[btype][p] ELSE None

C6_AnyAmbiguityRaises ==
    ppc = "returned" =>
        /\ \A f \in StateLayerFiles : \A p \in Precincts :
              Cardinality(Matches(p, state_files[f])) <= 1
        /\ \A key \in DOMAIN scoped_files : \A p \in Precincts :
              Cardinality(Matches(p, scoped_files[key])) <= 1

\* C6 as amended: no layer is resolved, and so no table is returned, when
\* more than one of its regions contains the test point of a precinct
\* tested against it: any precinct for a state-level layer, the precincts
\* assigned to the scope region for a scoped layer.  No entry is ever one
\* of several matching regions.
C6_TestedAmbiguityRaises ==
    /\ \A f \in done_state : \A p \in Precincts :
          /\ Cardinality(Matches(p, state_files[f])) <= 1
          /\ datatable[f][p] # Raised
    /\ \A key \in done_scoped : \A p \in Precincts :
          /\ Assigned(p, key) =>
                Cardinality(Matches(p, scoped_files[key])) <= 1
          /\ datatable[key[3]][p] # Raised
    /\ ppc = "returned" =>
          /\ done_state = StateLayerFiles
          /\ done_scoped = DOMAIN scoped_files

\* Parse raised in the second loop: a precinct of city x lies in both
\* wards of city x.
C6_Witness ==
    /\ ppc = "raised"
    /\ done_state = StateLayerFiles
    /\ \E p \in Precincts :
          /\ Assigned(p, ScopedWardKey)
          /\ Cardinality(Matches(p, scoped_files[ScopedWardKey])) > 1

\* The entry a state-level layer of the boundary type of key gave
\* precinct p, None without such a layer.
StateLevelEntry(p, key) ==
    IF key[3] \in StateLayerFiles
    THEN Expected(p, key[3], state_files[key[3]])
    ELSE None

\* C7 as stated: only precincts assigned the scope region are tested
\* against a scoped layer; a precinct that is not assigned it is never
\* tested against it and, with no other scoped layer of the boundary
\* type, its entry for the boundary type is None.
C7_OutOfScopeIsAbsent ==
    /\ \A t \in tested :
          t[2][1] # "state" => Assigned(t[1], t[2])
    /\ \A key \in done_scoped : \A p \in Precincts :
          (~Assigned(p, key) /\ OtherScoped(key) = {})
              => datatable[key[3]][p] = None

\* C7 as amended: only precincts assigned the scope region are tested
\* against a scoped layer; a precinct that is not assigned it is never
\* tested against it and, with no other scoped layer of the boundary
\* type, its entry for the boundary type is what a state-level layer of
\* that boundary type gave it, None when there is no such layer or it
\* has no region for the precinct.
C7_OutOfScopeKeepsEntry ==
    /\ \A t \in tested :
          t[2][1] # "state" => Assigned(t[1], t[2])
    /\ \A key \in done_scoped : \A p \in Precincts :
          (~Assigned(p, key) /\ OtherScoped(key) = {})
              => datatable[key[3]][p] = StateLevelEntry(p, key)

\* Parse has returned: precinct 1 is in city x and was tested against
\* the wards of x, precinct 2 is in city y, was not, and has no ward.
C7_Witness ==
    /\ ppc = "returned"
    /\ Assigned(1, ScopedWardKey)
    /\ <<1, ScopedWardKey>> \in tested
    /\ datatable["city"][2] # None
    /\ datatable["city"][2].name = "y"
    /\ <<2, ScopedWardKey>> \notin tested
    /\ Matches(2, scoped_files[ScopedWardKey]) # {}
    /\ datatable["ward"][2] = None

\* C8: whenever the second loop stands at, has tested a precinct against
\* or has resolved a scoped layer, every state-level layer has been
\* resolved and its column has an entry for every precinct.
C8_StateLevelFirst ==
    ( \/ ppc \in {"scoped", "returned"}
      \/ done_scoped # {}
      \/ \E t \in tested : t[2][1] # "state" )
    => /\ done_state = StateLayerFiles
       /\ \A f \in StateLayerFiles :
             /\ f \in DOMAIN datatable
             /\ DOMAIN datatable[f] = Precincts
             /\ \A p \in Precincts : <<p, <<"state", "", f>>>> \in tested

\* The scoped layer has been resolved after two state-level layers.
C8_Witness ==
    /\ ppc = "scoped"
    /\ done_scoped = {ScopedWardKey}
    /\ done_state = {"city", "ward"}

\* The rows of a layer in another order.
Permuted(rows, pi) == [i \in 1..Len(rows) |-> rows[pi[i]]]

\* The resolver's outcome for precinct p and a layer listed in order pi.
OutcomeIn(p, btype, rows, pi) ==
    GetBoundingRegion(ProcessHoles(state_files["precinct"][p].geometry),
                      RegionsTable(btype, Permuted(rows, pi)))

\* The resolver's outcome for precinct p is the same in every order of
\* the layer.
SameInEveryOrder(p, btype, rows) ==
    \A pi, rho \in Permutations(1..Len(rows)) :
        OutcomeIn(p, btype, rows, pi) = OutcomeIn(p, btype, rows, rho)

\* C9: the resolver's outcome for a precinct and a layer (a region, None
\* or the error) is the same for every order of the layer's regions, of
\* every layer parse is about to read, and a step that resolves a
\* state-level layer writes, for every precinct, the outcome of every
\* order, or raises when that is the outcome of every order.
C9_OrderIndependent ==
    [][ /\ ppc = "start" =>
              /\ \A f \in StateLayerFiles : \A p \in Precincts :
                    SameInEveryOrder(p, f, state_files[f])
              /\ \A key \in DOMAIN scoped_files : \A p \in Precincts :
                    SameInEveryOrder(p, key[3], scoped_files[key])
        /\ \A f \in done_state' \ done_state : \A p \in Precincts :
              \A pi \in Permutations(1..Len(state_files[f])) :
                 datatable'[f][p] = OutcomeIn(p, f, state_files[f], pi)
        /\ (ppc = "state" /\ ppc' = "raised") =>
              \E f \in StateLayerFiles \ done_state : \E p \in Precincts :
                 \A pi \in Permutations(1..Len(state_files[f])) :
                    OutcomeIn(p, f, state_files[f], pi) = Raised
      ]_vars

\* Precinct 1 was given city y, the second region listed, and a precinct
\* of city x lies in both wards of x.
C9_Witness ==
    /\ ppc = "raised"
    /\ "city" \in done_state
    /\ datatable["city"][1] # None
    /\ datatable["city"][1].name = "y"
    /\ \E p \in Precincts :
          Cardinality(Matches(p, scoped_files[ScopedWardKey])) > 1

\* The table parse holds has a row for every record of the precinct
\* artifact, in the order of the artifact, and one entry in every column.
RowsOfPrecinctArtifact(table) ==
    LET records == state_files["precinct"]
    IN  /\ \A c \in DOMAIN table : DOMAIN table[c] = 1..Len(records)
        /\ \A p \in 1..Len(records) :
              /\ table["precinct"][p].identifier = records[p].id
              /\ table["geometry"][p] = ProcessHoles(records[p].geometry)

\* C22: when parse returns, the table has exactly one row per record of
\* the precinct artifact, in the same order, with exactly one entry (a
\* region of that type or absent) in the column of every resolved boundary
\* type and a column for nothing else; no step of the state-level or the
\* scoped loop adds, removes or reorders rows.
C22_OneRowPerPrecinct ==
    [][/\ ppc \in {"state", "scoped"} =>
             /\ RowsOfPrecinctArtifact(datatable)
             /\ RowsOfPrecinctArtifact(datatable')
             /\ datatable'["precinct"] = datatable["precinct"]
             /\ datatable'["geometry"] = datatable["geometry"]
       /\ ppc' = "returned" =>
             /\ DOMAIN datatable' =
                   {"geometry", "precinct"} \cup done_state'
                      \cup {key[3] : key \in done_scoped'}
             /\ \A c \in DOMAIN datatable' \ {"geometry"} :
                   \A p \in DOMAIN datatable'[c] :
                      \/ datatable'[c][p] = None
                      \/ datatable'[c][p].btype = c]_vars

\* parse returned a table whose ward column a scoped layer created, with a
\* ward for one precinct and nothing for another.
C22_Witness ==
    /\ ppc = "returned"
    /\ "ward" \notin done_state
    /\ ScopedWardKey \in done_scoped
    /\ \E p \in Precincts : datatable["ward"][p] = None
    /\ \E p \in Precincts : datatable["ward"][p] # None

\* C26: a step that resolves a scoped layer of boundary type B leaves
\* every entry of column B that holds a region as it is, leaves the entry
\* of column B of every precinct outside the layer's scope region as it
\* is, and changes no other column.
C26_ScopedLayerOnlyFillsAbsent ==
    [][\A key \in done_scoped' \ done_scoped :
          /\ \A p \in Precincts :
                (Held(p, key[3]) # None \/ ~Assigned(p, key))
                    => datatable'[key[3]][p] = Held(p, key[3])
          /\ DOMAIN datatable' = DOMAIN datatable \cup {key[3]}
          /\ \A c \in DOMAIN datatable \ {key[3]} :
                datatable'[c] = datatable[c]]_vars

\* Both precincts lie in city x and in ward w1 of x; precinct 1 kept the
\* ward the state-level layer gave it, precinct 2 had none and got w1.
C26_Witness ==
    /\ ppc = "returned"
    /\ "ward" \in done_state
    /\ ScopedWardKey \in done_scoped
    /\ \A p \in {1, 2} :
          /\ Assigned(p, ScopedWardKey)
          /\ \E i \in Matches(p, scoped_files[ScopedWardKey]) :
                scoped_files[ScopedWardKey][i].name = "w1"
    /\ Matches(2, state_files["ward"]) = {}
    /\ datatable["ward"][1].name = "w0"
    /\ datatable["ward"][2].name = "w1"

(***************************************************************************)
(*                           REQUEST DESCRIPTORS                           *)
(* _BoundaryRequestBuilder.__init__ of fetcher.py, the module the package  *)
(* imports, and of _fetcher.py, the earlier module kept beside it.         *)
(***************************************************************************)
SrcFields == {"NAME", "ID"}
OutNames == {"name", "id"}

\* A field map: a dict from source field to output name, as the sequence
\* of its items in insertion order.
FieldMaps ==
    LET items == SrcFields \X OutNames
    IN  {<<>>} \cup {<<x>> : x \in items}
               \cup {<<p[1], p[2]>> :
                        p \in {q \in items \X items : q[1][1] # q[2][1]}}

\* out_fields.keys() and the renaming out_fields stands for
Keys(map) == [i \in 1..Len(map) |-> map[i][1]]
Renamed(map, column) ==
    IF \E i \in 1..Len(map) : map[i][1] = column
    THEN map[CHOOSE i \in 1..Len(map) : map[i][1] = column][2]
    ELSE column

\* The formats a caller may name, two of them unknown to every version.
SrcFormats == {"geojson", "shapefile", "gdb", "geopackage", "GeoJSON"}

\* src_name: None or a name
SrcNames == {None, [name |-> "tracts"], [name |-> "wards"]}

ValueError == [raised |-> "ValueError"]

\* lines 388 and 392: if src_name is None
SrcNameNeverMissing(src_name) == FALSE

SrcNameMissing(src_name) == src_name = None

\* lines 399-402: the attributes of a builder that was constructed
BuilderObject(a, params) ==
    [req |-> [method |-> "GET", url |-> a.base_url, params |-> params],
     out_fields |-> a.out_fields, dst_name |-> a.dst_name,
     src_format |-> a.src_format, src_name |-> a.src_name]

\* lines 366-385 of fetcher.py: the query of a feature service
GeojsonParams(keys) ==
    [where |-> "1=1", outFields |-> keys,
     geometryType |-> "esriGeometryPolygon",
     spatialRel |-> "esriSpatialRelIntersects",
     units |-> "esriSRUnit_NauticalMile", returnGeometry |-> "true",
     returnTrueCurves |-> "false", returnIdsOnly |-> "false",
     returnCountOnly |-> "false", returnZ |-> "false", returnM |-> "false",
     outSR |-> "{\"wkid\": 4326}", returnDistinctValues |-> "false",
     returnExtentOnly |-> "false", sqlFormat |-> "none",
     featureEncoding |-> "esriDefault",
     returnExceededLimitFeatures |-> "true", f |-> "geojson"]

\* lines 196-200 of _fetcher.py
LegacyGeojsonParams(keys) ==
    [where |-> "1=1", outFields |-> keys, f |-> "geojson"]

\* Request(method="GET", url=base_url): no params
NoParams == [none |-> TRUE]

\* _BoundaryRequestBuilder.__init__ of fetcher.py
BoundaryRequestBuilder(a) ==
    CASE a.src_format = "geojson" ->
            BuilderObject(a, GeojsonParams(Keys(a.out_fields)))
      [] a.src_format = "shapefile" ->
            IF SrcNameMissing(a.src_name) THEN ValueError
            ELSE BuilderObject(a, NoParams)
      [] a.src_format = "gdb" ->
            IF SrcNameMissing(a.src_name) THEN ValueError
            ELSE BuilderObject(a, NoParams)
      [] OTHER -> ValueError

\* _BoundaryRequestBuilder.__init__ of _fetcher.py, whose out_fields is
\* the list of the fields
LegacyBoundaryRequestBuilder(a) ==
    CASE a.src_format = "geojson" ->
            BuilderObject(a, LegacyGeojsonParams(a.out_fields))
      [] a.src_format = "shapefile" ->
            IF SrcNameMissing(a.src_name) THEN ValueError
            ELSE BuilderObject(a, NoParams)
      [] OTHER -> ValueError

BuildInit ==
    /\ source_file \in {"fetcher.py", "_fetcher.py"}
    /\ \E fmt \in SrcFormats, name \in SrcNames, map \in FieldMaps :
          args = [dst_name |-> "city", base_url |-> "https://gis/city",
                  out_fields |-> IF source_file = "fetcher.py"
                                 THEN map ELSE Keys(map),
                  src_format |-> fmt, src_name |-> name]
    /\ builder = Unset
    /\ bpc = "call"

\* A builder of fetcher.py is constructed.
Construct ==
    /\ bpc = "call"
    /\ source_file = "fetcher.py"
    /\ builder' = BoundaryRequestBuilder(args)
    /\ bpc' = IF builder' = ValueError THEN "rejected" ELSE "built"
    /\ UNCHANGED <<source_file, args, fetchVars, parseVars, holesVars,
                   frameVars, codeVars>>

\* A builder of _fetcher.py is constructed.
LegacyConstruct ==
    /\ bpc = "call"
    /\ source_file = "_fetcher.py"
    /\ builder' = LegacyBoundaryRequestBuilder(args)
    /\ bpc' = IF builder' = ValueError THEN "rejected" ELSE "built"
    /\ UNCHANGED <<source_file, args, fetchVars, parseVars, holesVars,
                   frameVars, codeVars>>

BuildNext ==
    \/ Construct
    \/ LegacyConstruct

InitBuild == BuildInit /\ FetchOff /\ ParseOff /\ HolesOff /\ FrameOff /\ CodeOff

SpecBuild == InitBuild /\ [][BuildNext]_vars

\* C18: a descriptor is constructed only when its format is geojson,
\* shapefile or gdb and, for the two archive formats, an in-archive name
\* is given; an archive format without name and an unknown format are
\* rejected, and no request has been sent when the constructor ends.
C18_DescriptorValidated ==
    bpc \in {"built", "rejected"} =>
        /\ bpc = "built" =>
              /\ args.src_format \in {"geojson", "shapefile", "gdb"}
              /\ args.src_format \in {"shapefile", "gdb"} =>
                    args.src_name # None
              /\ builder.src_format = args.src_format
              /\ builder.src_name = args.src_name
        /\ ( \/ args.src_format \notin {"geojson", "shapefile", "gdb"}
             \/ /\ args.src_format \in {"shapefile", "gdb"}
                /\ args.src_name = None )
             => bpc = "rejected" /\ builder = ValueError
        /\ requested = {} /\ sent = <<>>

\* A gdb descriptor of fetcher.py without its layer name was rejected.
C18_Witness ==
    /\ bpc = "rejected"
    /\ source_file = "fetcher.py"
    /\ args.src_format = "gdb"
    /\ args.src_name = None
    /\ builder = ValueError

(***************************************************************************)
(*                      NORMALIZATION: _process_frame                      *)
(* A frame is its crs and the sequence of its columns; a column is its     *)
(* name, its dtype and the value it holds in a row.  The geometry column   *)
(* holds the reference system its coordinates are in.                      *)
(***************************************************************************)
Epsg4326 == [crs |-> "epsg:4326"]
Epsg2285 == [crs |-> "epsg:2285"]

\* The attribute columns a source table may have, in table order; the
\* last one is in no field map.
AttrColumns == <<"NAME", "ID", "AREA">>

\* What an attribute column holds: strings (dtype object) or numbers.
Series == {[dtype |-> "object", value |-> "Ab"],
           [dtype |-> "object", value |-> "ab"],
           [dtype |-> "int64", value |-> "7"]}

Column(name, series) ==
    [name |-> name, dtype |-> series.dtype, value |-> series.value]

GeometryColumn(crs) ==
    [name |-> "geometry", dtype |-> "geometry", value |-> crs.crs]

\* The frames a helper may hand over: any of the attribute columns, a
\* geometry column, and the crs the coordinates are in or no crs.
Frames ==
    {[crs |-> IF labelled THEN true ELSE None,
      columns |-> SelectSeq([i \in 1..Len(AttrColumns) |->
                                IF i \in DOMAIN held
                                THEN Column(AttrColumns[i], held[i])
                                ELSE Unset],
                            LAMBDA c : c # Unset)
                  \o <<GeometryColumn(true)>>] :
        true \in {Epsg4326, Epsg2285},
        labelled \in BOOLEAN,
        held \in UNION {[D -> Series] : D \in SUBSET (1..Len(AttrColumns))}}

ColumnNames(fr) == {fr.columns[i].name : i \in 1..Len(fr.columns)}

\* frame[name], for a name the frame has
ColumnNamed(fr, name) ==
    fr.columns[CHOOSE i \in 1..Len(fr.columns) : fr.columns[i].name = name]

KeyError == [raised |-> "KeyError"]
AttributeError == [raised |-> "AttributeError"]

\* line 323: frame.set_crs("epsg:4326") returns a new frame with the crs
\* set; the statement drops it and frame is what it was.
SetCrs(fr, crs) == [fr EXCEPT !.crs = crs]

FrameAfterSetCrs(fr) ==
    LET dropped == SetCrs(fr, Epsg4326)
    IN  fr

\* line 325: frame.to_crs("epsg:4326", inplace=True); a frame without crs
\* cannot be transformed.
ToCrs(fr, crs) ==
    IF fr.crs = None THEN ValueError
    ELSE [crs |-> crs,
          columns |-> [i \in 1..Len(fr.columns) |->
                          IF fr.columns[i].dtype = "geometry"
                          THEN [fr.columns[i] EXCEPT !.value = crs.crs]
                          ELSE fr.columns[i]]]

\* line 326: frame[list(out_fields.keys()) + ["geometry"]]
SelectAll(fr, map) == fr

Select(fr, map) ==
    IF \E i \in 1..Len(map) : map[i][1] \notin ColumnNames(fr)
    THEN KeyError
    ELSE [fr EXCEPT !.columns =
              [i \in 1..Len(map) |-> ColumnNamed(fr, map[i][1])]
              \o <<ColumnNamed(fr, "geometry")>>]

\* line 327: new_frame.rename(out_fields, axis=1)
Rename(fr, map) ==
    [fr EXCEPT !.columns =
        [i \in 1..Len(fr.columns) |->
            [fr.columns[i] EXCEPT !.name = Renamed(map, @)]]]

\* shapely/pandas: str.casefold() of the values drawn
Casefold(value) == IF value = "Ab" THEN "ab" ELSE value

\* lines 329-330: every column of dtype object is replaced by its
\* casefolded values; new_frame[c] of a name two columns bear is a
\* DataFrame, which has no .str.
Lower(fr) ==
    IF \E i, j \in 1..Len(fr.columns) :
          /\ i # j
          /\ fr.columns[i].name = fr.columns[j].name
          /\ "object" \in {fr.columns[i].dtype, fr.columns[j].dtype}
    THEN AttributeError
    ELSE [fr EXCEPT !.columns =
              [i \in 1..Len(fr.columns) |->
                  IF fr.columns[i].dtype = "object"
                  THEN [fr.columns[i] EXCEPT !.value = Casefold(@)]
                  ELSE fr.columns[i]]]

IsRaised(x) == x \in {ValueError, KeyError, AttributeError}

\* _DataFetcherHelper._process_frame
ProcessFrame(fr, map, low, project) ==
    LET crsd == IF fr.crs = None THEN FrameAfterSetCrs(fr) ELSE fr
        projected == IF project THEN ToCrs(crsd, Epsg4326) ELSE crsd
    IN  IF IsRaised(projected) THEN projected
        ELSE LET selected == Select(projected, map)
             IN  IF IsRaised(selected) THEN selected
                 ELSE IF low THEN Lower(Rename(selected, map))
                      ELSE Rename(selected, map)

FrameInit ==
    /\ frame \in Frames
    /\ out_fields \in FieldMaps
    /\ lower \in BOOLEAN
    /\ project_to_84 \in BOOLEAN
    /\ new_frame = Unset
    /\ fpc = "call"

\* _process_frame returns the new frame.
ProcessFrameReturns ==
    /\ fpc = "call"
    /\ ~IsRaised(ProcessFrame(frame, out_fields, lower, project_to_84))
    /\ new_frame' = ProcessFrame(frame, out_fields, lower, project_to_84)
    /\ fpc' = "returned"
    /\ UNCHANGED <<frame, out_fields, lower, project_to_84, fetchVars,
                   parseVars, holesVars, buildVars, codeVars>>

\* _process_frame is left by an exception.
ProcessFrameRaises ==
    /\ fpc = "call"
    /\ IsRaised(ProcessFrame(frame, out_fields, lower, project_to_84))
    /\ new_frame' = ProcessFrame(frame, out_fields, lower, project_to_84)
    /\ fpc' = "raised"
    /\ UNCHANGED <<frame, out_fields, lower, project_to_84, fetchVars,
                   parseVars, holesVars, buildVars, codeVars>>

FrameNext ==
    \/ ProcessFrameReturns
    \/ ProcessFrameRaises

InitFrame == FrameInit /\ FetchOff /\ ParseOff /\ HolesOff /\ BuildOff /\ CodeOff

SpecFrame == InitFrame /\ [][FrameNext]_vars

\* C19: the columns of a normalized table are the geometry column and the
\* output names of the field map: every key of the map is there under its
\* mapped name, with the dtype of its source column, and no source column
\* outside the map is there.
C19_ColumnsAreFieldMapPlusGeometry ==
    fpc = "returned" =>
        /\ ColumnNames(new_frame) =
              {"geometry"} \cup {out_fields[i][2] : i \in 1..Len(out_fields)}
        /\ \A i \in 1..Len(out_fields) :
              \E j \in 1..Len(new_frame.columns) :
                 /\ new_frame.columns[j].name = out_fields[i][2]
                 /\ new_frame.columns[j].dtype =
                        ColumnNamed(frame, out_fields[i][1]).dtype
        /\ \A i \in 1..Len(AttrColumns) :
              AttrColumns[i] \notin ColumnNames(new_frame)

\* A table with three attribute columns, two of them mapped, was
\* normalized.
C19_Witness ==
    /\ fpc = "returned"
    /\ Len(frame.columns) = 4
    /\ Len(out_fields) = 2
    /\ ColumnNames(new_frame) = {"name", "id", "geometry"}

\* C20: normalizing a table without crs does not fail and yields a table
\* whose crs is EPSG:4326, also with the reproject flag; with the flag
\* every output geometry is in EPSG:4326 whatever the source crs was.
\* Tables that lack a mapped field or end with two columns of one name
\* fail for another reason and are left aside.
C20_NoCrsDefaultsToWgs84 ==
    (fpc \in {"returned", "raised"} /\ new_frame \notin {KeyError, AttributeError})
    => /\ frame.crs = None => fpc = "returned" /\ new_frame.crs = Epsg4326
       /\ project_to_84 =>
             /\ fpc = "returned"
             /\ ColumnNamed(new_frame, "geometry").value = Epsg4326.crs

(***************************************************************************)
(*                           THE STATE DIRECTORY                           *)
(* StateDataFetcher.__init__ and fetch write under a directory named from  *)
(* the state code; StateParser.__init__ looks for the precinct artifact    *)
(* under a directory named from the same code.  A code is the sequence of  *)
(* its characters.                                                         *)
(***************************************************************************)
Letters == {"w", "W", "a", "A"}

\* str.upper() on one character
UpperLetter(c) ==
    CASE c = "w" -> "W"
      [] c = "a" -> "A"
      [] OTHER -> c

\* str.upper()
Upper(s) == [i \in DOMAIN s |-> UpperLetter(s[i])]

Codes == UNION {[1..n -> Letters] : n \in 0..MaxCodeLen}

\* The directory entry a name under datasets/ stands for: on a file system
\* that does not tell letter case apart, names that differ in case only are
\* one entry.
Entry(name) == IF case_sensitive THEN name ELSE Upper(name)

FileNotFoundError == [raised |-> "FileNotFoundError"]

CodeInit ==
    /\ code \in Codes
    /\ case_sensitive \in BOOLEAN
    /\ state_dirs \in {{}, {<<"W", "A">>}}
    /\ precinct_files = state_dirs
    /\ fetcher = Unset
    /\ wrote_precinct = FALSE
    /\ parser = Unset
    /\ cpc = "start"

\* StateDataFetcher.__init__, fetcher.py lines 431-437
ConstructFetcher ==
    /\ cpc = "start"
    /\ IF Len(code) # 2
       THEN /\ fetcher' = ValueError
            /\ cpc' = "rejected"
            /\ UNCHANGED state_dirs
       ELSE /\ fetcher' = [code |-> Upper(code), state_output_path |-> code]
            /\ state_dirs' = state_dirs \cup {Entry(code)}        \* mkdir
            /\ cpc' = "constructed"
    /\ UNCHANGED <<code, case_sensitive, precinct_files, wrote_precinct,
                   parser>>
    /\ UNCHANGED <<fetchVars, parseVars, holesVars, buildVars, frameVars>>

\* fetch, as far as the precinct layer goes: state/precinct.geojson under
\* self.state_output_path (line 447) is written, or the layer failed.
FetchPrecinct ==
    /\ cpc = "constructed"
    /\ \E w \in BOOLEAN :
         /\ wrote_precinct' = w
         /\ precinct_files' =
              IF w THEN precinct_files \cup {Entry(fetcher.state_output_path)}
              ELSE precinct_files
    /\ cpc' = "fetched"
    /\ UNCHANGED <<code, case_sensitive, state_dirs, fetcher, parser>>
    /\ UNCHANGED <<fetchVars, parseVars, holesVars, buildVars, frameVars>>

\* StateParser.__init__, parser.py lines 16-24
ConstructParser ==
    /\ cpc \in {"rejected", "fetched"}
    /\ parser' =
          IF Len(code) # 2 THEN ValueError
          ELSE LET state_datapath == Upper(code)
               IN  IF Entry(state_datapath) \in precinct_files
                   THEN [code |-> Upper(code),
                         state_datapath |-> state_datapath]
                   ELSE FileNotFoundError
    /\ cpc' = "parser"
    /\ UNCHANGED <<code, case_sensitive, state_dirs, precinct_files, fetcher,
                   wrote_precinct>>
    /\ UNCHANGED <<fetchVars, parseVars, holesVars, buildVars, frameVars>>

CodeNext ==
    \/ ConstructFetcher
    \/ FetchPrecinct
    \/ ConstructParser

InitCode ==
    CodeInit /\ FetchOff /\ ParseOff /\ HolesOff /\ BuildOff /\ FrameOff

SpecCode == InitCode /\ [][CodeNext]_vars

\* C28: for a code of two characters in any letter case the fetcher's
\* state directory is the directory the parser reads, and after a fetch
\* that wrote the precinct layer the parser is constructed; a code of
\* another length is rejected by both with ValueError and no directory is
\* created.
C28_SameStateDirectory ==
    cpc = "parser" =>
        IF Len(code) = 2
        THEN /\ Entry(fetcher.state_output_path) = Entry(Upper(code))
             /\ wrote_precinct => parser \notin {ValueError, FileNotFoundError}
        ELSE /\ fetcher = ValueError
             /\ parser = ValueError
             /\ state_dirs = precinct_files

=============================================================================
